---- MODULE Spec2Model ----
(***************************************************************************)
(* Model of src/main.rs: decoding of seat codes into 10-bit seat ids       *)
(* (to_id, Seat::new_for_code), the fold that builds the seat collection   *)
(* (read_seats) and the search for the lowest, highest and missing id      *)
(* (main).                                                                 *)
(*                                                                         *)
(* A code is a sequence of one-character strings.  A u32 is the set of its *)
(* set bit positions (a subset of 0..31), so that 1u32 << 31 is            *)
(* representable; ids that passed the range check are plain numbers.       *)
(* overflow_checks is the build's arithmetic profile: with it (debug) an   *)
(* overflowing usize subtraction panics, without it (release) the          *)
(* subtraction wraps and the shift amount is masked to five bits.          *)
(*                                                                         *)
(* The run starts with the filename argument given and the file opened;    *)
(* lines is the file's content, every line read without an I/O error.      *)
(* Spec runs main on files of up to MaxLines lines, SpecOrder on the       *)
(* shorter files whose permutations are compared, SpecDecode hands one     *)
(* code to Seat::new_for_code.                                             *)
(***************************************************************************)
EXTENDS Integers, Sequences, FiniteSets, TLC

VARIABLES overflow_checks, lines, pc, next, acc, invoked,
          seats, lowest, highest, id, mine, outcome

vars == <<overflow_checks, lines, pc, next, acc, invoked,
          seats, lowest, highest, id, mine, outcome>>

-----------------------------------------------------------------------------
(* Bounds of the explored inputs *)

MaxLines == 4
MaxPermLines == 3
MaxLen == 12

(* Program constants *)

TopBit == 9
MaxId == 1023
ShiftMask == 31

-----------------------------------------------------------------------------
(* Characters and codes *)

Lower == {"F", "L"}
Upper == {"B", "R"}
Legal == Lower \cup Upper
Chars == Legal \cup {"X", "Z"}

(* The codes of tests::converts_code_to_the_correct_seat *)
TestCodes ==
  { <<"B","B","B","B","B","B","B","R","R","R">>,
    <<"F","F","F","F","F","F","F","L","L","L">>,
    <<"F","B","F","B","B","F","F","R","L","R">>,
    <<"B","F","F","F","B","B","F","R","R","R">>,
    <<"F","F","F","B","B","B","F","R","R","R">>,
    <<"B","B","F","F","B","B","F","R","L","L">> }

-----------------------------------------------------------------------------
(* result::Result<T, Error>, and a panic that unwinds out of the call *)

Ok(v) == [tag |-> "Ok", val |-> v]
Err(m) == [tag |-> "Err", val |-> m]
Panicked == [tag |-> "Panic", val |-> "panic"]

-----------------------------------------------------------------------------
(* u32 values as bit sets *)

RECURSIVE Pow2(_)
Pow2(n) == IF n = 0 THEN 1 ELSE 2 * Pow2(n - 1)

RECURSIVE BitsValue(_)
BitsValue(bits) ==
  IF bits = {} THEN 0
  ELSE LET b == CHOOSE b \in bits : TRUE
       IN Pow2(b) + BitsValue(bits \ {b})

(* id | mask *)
BitOr(a, b) == a \cup b

(* The 16-bit halves of a u32 *)
Hi(bits) == BitsValue({b - 16 : b \in {c \in bits : c >= 16}})
Lo(bits) == BitsValue({c \in bits : c < 16})

(* id <= 1023 on a u32 *)
LeqMaxId(bits) == Hi(bits) = 0 /\ Lo(bits) <= MaxId

(* Display of a u32: decimal digits, by long division of the 16-bit halves *)
Digit(d) == CASE d = 0 -> "0" [] d = 1 -> "1" [] d = 2 -> "2" [] d = 3 -> "3"
              [] d = 4 -> "4" [] d = 5 -> "5" [] d = 6 -> "6" [] d = 7 -> "7"
              [] d = 8 -> "8" [] d = 9 -> "9"

RECURSIVE DecimalHalves(_, _)
DecimalHalves(hi, lo) ==
  LET rem == (hi % 10) * 65536 + lo
      qhi == hi \div 10
      qlo == rem \div 10
  IN IF qhi = 0 /\ qlo = 0 THEN Digit(rem % 10)
     ELSE DecimalHalves(qhi, qlo) \o Digit(rem % 10)

DisplayU32(bits) == DecimalHalves(Hi(bits), Lo(bits))

-----------------------------------------------------------------------------
(* to_id, main.rs:38-49 *)

(* Mask with the weight of position i taken one bit too high *)
Mask_OffByOne(i, checks) ==
  IF i <= TopBit THEN Ok({TopBit + 1 - i})
  ELSE IF checks THEN Panicked
  ELSE Ok({(TopBit + 1 - i) % (ShiftMask + 1)})

(* 1u32 << (9 - i), i: usize.  Ok(mask) or a panic. *)
Mask(i, checks) ==
  IF i <= TopBit THEN Ok({TopBit - i})
  ELSE IF checks THEN Panicked
  ELSE Ok({(TopBit - i) % (ShiftMask + 1)})

(* ToIdStep without the and_then: an illegal character replaces an earlier
   error *)
ToIdStep_LastWins(a, i, c, checks) ==
  LET mask == Mask(i, checks)
  IN IF mask.tag = "Panic" THEN Panicked
     ELSE IF c \in Lower THEN a
     ELSE IF c \in Upper
          THEN (IF a.tag = "Ok" THEN Ok(BitOr(a.val, mask.val)) ELSE a)
     ELSE Err(c \o " is an illegal character")

(* The closure of the fold, applied to the accumulator and (i, c);
   i counts from 0. *)
ToIdStep(a, i, c, checks) ==
  IF a.tag # "Ok" THEN a
  ELSE LET mask == Mask(i, checks)
       IN IF mask.tag = "Panic" THEN Panicked
          ELSE IF c \in Lower THEN Ok(a.val)
          ELSE IF c \in Upper THEN Ok(BitOr(a.val, mask.val))
          ELSE Err(c \o " is an illegal character")

RECURSIVE ToIdFold(_, _, _, _)
ToIdFold(a, code, k, checks) ==
  IF k > Len(code) \/ a.tag = "Panic" THEN a
  ELSE ToIdFold(ToIdStep(a, k - 1, code[k], checks), code, k + 1, checks)

to_id(code, checks) == ToIdFold(Ok({}), code, 1, checks)

(* new_for_code rejecting every code that is not 10 characters long *)
new_for_code_LenChecked(code, checks) ==
  IF Len(code) # TopBit + 1 THEN Err("bad length")
  ELSE LET i == to_id(code, checks)
       IN IF i.tag # "Ok" THEN i
          ELSE IF LeqMaxId(i.val) THEN Ok([id |-> Lo(i.val), code |-> code])
          ELSE Err("id " \o DisplayU32(i.val) \o " is too high")

(* Seat::new_for_code, main.rs:52-61 *)
Seat(i, code) == [id |-> i, code |-> code]

new_for_code(code, checks) ==
  LET i == to_id(code, checks)
  IN IF i.tag # "Ok" THEN i
     ELSE IF LeqMaxId(i.val) THEN Ok(Seat(Lo(i.val), code))
     ELSE Err("id " \o DisplayU32(i.val) \o " is too high")

-----------------------------------------------------------------------------
(* cmp with the operands swapped *)
cmp_le_Reversed(a, b) == b.id <= a.id

(* impl Ord for Seat, main.rs:64-74: seats compare by id alone *)

cmp_le(a, b) == a.id <= b.id

(* seats.sort(), main.rs:102: a stable sort under cmp *)
RECURSIVE Insert(_, _)
Insert(sorted, s) ==
  IF sorted = <<>> THEN <<s>>
  ELSE IF cmp_le(sorted[Len(sorted)], s) THEN Append(sorted, s)
  ELSE Append(Insert(SubSeq(sorted, 1, Len(sorted) - 1), s), sorted[Len(sorted)])

RECURSIVE SortFrom(_, _, _)
SortFrom(sorted, v, k) ==
  IF k > Len(v) THEN sorted ELSE SortFrom(Insert(sorted, v[k]), v, k + 1)

(* sort left out: the seats stay in input order *)
sort_Unsorted(v) == v

sort(v) == SortFrom(<<>>, v, 1)

(* The range running one id past highest *)
RangeEnd_PastEnd(lo, hi) == hi + 1

(* The last id the range lowest..=highest yields *)
RangeEnd(lo, hi) == hi

(* The closure of the fold of read_seats, main.rs:87-94 *)
Collect(a, res) ==
  IF a.tag # "Ok" THEN a
  ELSE IF res.tag = "Ok" THEN Ok(Append(a.val, res.val))
  ELSE res

(* One candidate of (lowest..=highest).find(..), main.rs:105-107, on the
   sorted seats s: the range is exhausted and the unwrap panics, the index
   is out of bounds, the closure holds (the id is found) or the search
   moves on. *)
FindStep(s, lo, hi, i) ==
  IF i > RangeEnd(lo, hi) THEN Panicked
  ELSE IF i - lo >= Len(s) THEN Panicked
  ELSE IF s[i - lo + 1].id # i THEN Ok(<<lo, hi, i>>)
  ELSE [tag |-> "Continue", val |-> i + 1]

(* main as a function of the file, for comparing runs on different files *)
RECURSIVE ReadFrom(_, _, _, _)
ReadFrom(a, file, k, checks) ==
  IF k > Len(file) THEN a
  ELSE LET res == new_for_code(file[k], checks)
       IN IF res.tag = "Panic" THEN Panicked
          ELSE ReadFrom(Collect(a, res), file, k + 1, checks)

RECURSIVE FindFrom(_, _, _, _)
FindFrom(s, lo, hi, i) ==
  LET r == FindStep(s, lo, hi, i)
  IN IF r.tag = "Continue" THEN FindFrom(s, lo, hi, r.val) ELSE r

main(file, checks) ==
  LET r == ReadFrom(Ok(<<>>), file, 1, checks)
  IN IF r.tag # "Ok" THEN r
     ELSE LET s == sort(r.val)
          IN IF s = <<>> THEN Panicked
             ELSE FindFrom(s, s[1].id, s[Len(s)].id, s[1].id)

-----------------------------------------------------------------------------
(* Inputs *)

(* The 10-character code of an id: F/B for bits 9..3, L/R for bits 2..0 *)
IdCode(n) ==
  [k \in 1..(TopBit + 1) |->
     LET bit == (n \div Pow2(TopBit + 1 - k)) % 2
     IN IF k <= 7 THEN (IF bit = 1 THEN "B" ELSE "F")
                  ELSE (IF bit = 1 THEN "R" ELSE "L")]

MinLineId == 1
MaxLineId == 5

IllegalLine == <<"F","F","F","F","F","F","F","L","L","X">>
LongLine == <<"F","F","F","F","F","F","F","L","L","L","F">>
AltLine == <<"L","F","L","F","L","F","L","F","L","R">>

LineCodes ==
  {IdCode(n) : n \in MinLineId..MaxLineId} \cup {IllegalLine, LongLine, AltLine}

RECURSIVE SeqsUpTo(_, _)
SeqsUpTo(S, n) ==
  IF n = 0 THEN {<<>>}
  ELSE LET shorter == SeqsUpTo(S, n - 1)
       IN shorter \cup {Append(q, x) : q \in shorter, x \in S}

Files == SeqsUpTo(LineCodes, MaxLines)

(* The files every permutation of which is run *)
ShortFiles == SeqsUpTo(LineCodes, MaxPermLines)

(* Codes for the decoder: a test code cut or cyclically extended to a
   length up to MaxLen, with the characters at two positions replaced *)
Resize(b, n) == [k \in 1..n |-> b[((k - 1) % Len(b)) + 1]]

Replace(code, p, c) == [k \in 1..Len(code) |-> IF k = p THEN c ELSE code[k]]

DecoderInput(b, n, p, c, q, d) == Replace(Replace(Resize(b, n), p, c), q, d)

-----------------------------------------------------------------------------
(* The program *)

InitLocals ==
  /\ overflow_checks \in BOOLEAN
  /\ pc = "read"
  /\ next = 1
  /\ acc = Ok(<<>>)
  /\ invoked = <<>>
  /\ seats = <<>>
  /\ lowest = 0
  /\ highest = 0
  /\ id = 0
  /\ mine = 0
  /\ outcome = [tag |-> "Running", val |-> "running"]

Init == lines \in Files /\ InitLocals

InitOrder == lines \in ShortFiles /\ InitLocals

InitDecode ==
  /\ \E b \in TestCodes : \E n \in 0..MaxLen :
       \E p \in 1..MaxLen : \E q \in 1..MaxLen : \E c \in Chars : \E d \in Chars :
          lines = <<DecoderInput(b, n, p, c, q, d)>>
  /\ InitLocals

(* read_seats, main.rs:81-95: one item of the map/fold chain.  The map
   closure decodes the line, then the fold closure merges the result into
   the accumulator. *)
ReadLine ==
  /\ pc = "read"
  /\ next <= Len(lines)
  /\ LET res == new_for_code(lines[next], overflow_checks)
     IN /\ invoked' = Append(invoked, next)
        /\ IF res.tag = "Panic"
           THEN /\ pc' = "done"
                /\ outcome' = Panicked
                /\ UNCHANGED <<acc, next>>
           ELSE /\ acc' = Collect(acc, res)
                /\ next' = next + 1
                /\ UNCHANGED <<pc, outcome>>
  /\ UNCHANGED <<overflow_checks, lines, seats, lowest, highest, id, mine>>

(* main, main.rs:100-105: the ? on read_seats, the sort, first and last *)
Sort ==
  /\ pc = "read"
  /\ next > Len(lines)
  /\ IF acc.tag # "Ok"
     THEN /\ pc' = "done"
          /\ outcome' = acc
          /\ UNCHANGED <<seats, lowest, highest, id>>
     ELSE /\ seats' = sort(acc.val)
          /\ IF seats' = <<>>
             THEN /\ pc' = "done"
                  /\ outcome' = Panicked
                  /\ UNCHANGED <<lowest, highest, id>>
             ELSE /\ lowest' = seats'[1].id
                  /\ highest' = seats'[Len(seats')].id
                  /\ id' = lowest'
                  /\ pc' = "find"
                  /\ UNCHANGED outcome
  /\ UNCHANGED <<overflow_checks, lines, next, acc, invoked, mine>>

(* main, main.rs:105-112: one candidate of the find over lowest..=highest,
   then the unwrap and the three println! *)
Find ==
  /\ pc = "find"
  /\ LET r == FindStep(seats, lowest, highest, id)
     IN IF r.tag = "Continue"
        THEN /\ id' = r.val
             /\ UNCHANGED <<pc, outcome, mine>>
        ELSE /\ pc' = "done"
             /\ outcome' = r
             /\ mine' = IF r.tag = "Ok" THEN id ELSE mine
             /\ UNCHANGED id
  /\ UNCHANGED <<overflow_checks, lines, next, acc, invoked, seats, lowest, highest>>

Next == ReadLine \/ Sort \/ Find

Spec == Init /\ [][Next]_vars

SpecOrder == InitOrder /\ [][Next]_vars

NextDecode == ReadLine

SpecDecode == InitDecode /\ [][NextDecode]_vars

-----------------------------------------------------------------------------
(* Vocabulary of the properties *)

(* The decoder's run: one code, handed to Seat::new_for_code by ReadLine *)
Code == lines[1]
DecodedOne == Len(lines) = 1 /\ invoked = <<1>>
AllLegal(code) == \A k \in 1..Len(code) : code[k] \in {"F", "B", "L", "R"}
FirstIllegal(code) ==
  CHOOSE p \in 1..Len(code) :
    /\ code[p] \notin {"F", "B", "L", "R"}
    /\ \A q \in 1..(p - 1) : code[q] \in {"F", "B", "L", "R"}

(* Sum of 2^(9-i) over the positions i (from 0) holding B or R *)
RECURSIVE WeightSumFrom(_, _)
WeightSumFrom(code, k) ==
  IF k > Len(code) THEN 0
  ELSE (IF code[k] \in {"B", "R"} THEN Pow2(9 - (k - 1)) ELSE 0)
       + WeightSumFrom(code, k + 1)
WeightSum(code) == WeightSumFrom(code, 1)

IllegalMessages == {c \o " is an illegal character" : c \in Chars}

(* The program's run: the collection is complete when every line was read
   and none failed *)
Complete == pc = "done" /\ next > Len(lines) /\ acc.tag = "Ok"
Ids == {acc.val[k].id : k \in 1..Len(acc.val)}
MinId == CHOOSE m \in Ids : \A n \in Ids : m <= n
MaxId_ == CHOOSE m \in Ids : \A n \in Ids : n <= m
Distinct == Cardinality(Ids) = Len(acc.val)
Gaps == (MinId..MaxId_) \ Ids

-----------------------------------------------------------------------------
(* C1: every 10-character code over {F,B,L,R} decodes, in either build, to
   the Seat whose id is the sum of 2^(9-i) over the positions i holding B or
   R; the id lies in 0..1023, FFFFFFFLLL gives 0 and BBBBBBBRRR gives 1023. *)
C1_ValidCodeDecodes ==
  (DecodedOne /\ Len(Code) = 10 /\ AllLegal(Code)) =>
     /\ outcome.tag # "Panic"
     /\ acc = Ok(<<[id |-> WeightSum(Code), code |-> Code]>>)
     /\ acc.val[1].id \in 0..1023
     /\ (Code = <<"F","F","F","F","F","F","F","L","L","L">> => acc.val[1].id = 0)
     /\ (Code = <<"B","B","B","B","B","B","B","R","R","R">> => acc.val[1].id = 1023)
     /\ new_for_code(Code, ~overflow_checks) = Ok(acc.val[1])

C1_Witness ==
  /\ DecodedOne
  /\ Code = <<"F","B","F","B","B","F","F","R","L","R">>
  /\ acc = Ok(<<[id |-> 357, code |-> Code]>>)

(* C2: a 10-character code with a character outside {F,B,L,R} decodes to an
   error naming the leftmost such character, whatever stands to its right. *)
C2_LeftmostIllegalReported ==
  (DecodedOne /\ Len(Code) = 10 /\ ~AllLegal(Code)) =>
     LET p == FirstIllegal(Code)
     IN /\ outcome.tag # "Panic"
        /\ acc = Err(Code[p] \o " is an illegal character")
        /\ \A q \in (p + 1)..10 : \A c \in Chars :
             new_for_code([Code EXCEPT ![q] = c], overflow_checks) = acc

C2_Witness ==
  /\ DecodedOne
  /\ Len(Code) = 10
  /\ \E p \in 1..10 : \E q \in (p + 1)..10 :
       /\ Code[p] = "X"
       /\ Code[q] = "Z"
       /\ \A r \in 1..(p - 1) : Code[r] \in {"F", "B", "L", "R"}
  /\ acc = Err("X is an illegal character")

(* C3: a collection of pairwise distinct ids covering [min, max] but for one
   id m yields lowest = min, highest = max and missing = m, with
   min < m < max and m the id of no seat. *)
C3_SingleGapFound ==
  (Complete /\ acc.val # <<>> /\ Distinct /\ Cardinality(Gaps) = 1) =>
     LET m == CHOOSE g \in Gaps : TRUE
     IN /\ outcome = Ok(<<MinId, MaxId_, m>>)
        /\ lowest = MinId /\ highest = MaxId_ /\ mine = m
        /\ MinId < m /\ m < MaxId_
        /\ \A k \in 1..Len(seats) : seats[k].id # m

C3_Witness ==
  /\ Complete
  /\ Ids = {1, 2, 4, 5}
  /\ Len(lines) = 4
  /\ outcome = Ok(<<1, 5, 3>>)

(* C4: on an empty collection the analysis ends in an error value. *)
C4_EmptyFails ==
  (pc = "done" /\ lines = <<>>) => outcome.tag = "Err"

(* C5: on a collection of contiguous, pairwise distinct ids the analysis
   ends in an error value. *)
C5_NoGapFails ==
  (Complete /\ acc.val # <<>> /\ Distinct /\ Gaps = {}) => outcome.tag = "Err"

(* C6: when every line decodes, the outcome of the run is the outcome of
   the run on every permutation of the lines. *)
C6_OrderIndependent ==
  (pc = "done" /\ \A k \in 1..Len(lines) :
                     new_for_code(lines[k], overflow_checks).tag = "Ok") =>
     \A p \in Permutations(1..Len(lines)) :
        main([k \in 1..Len(lines) |-> lines[p[k]]], overflow_checks) = outcome

C6_Witness ==
  /\ pc = "done"
  /\ lines = <<IdCode(4), AltLine, IdCode(2)>>
  /\ outcome = Ok(<<1, 4, 3>>)

(* C7: once a line has failed to decode, Seat::new_for_code is invoked on
   no later line. *)
C7_NoDecodeAfterFailure ==
  [][acc.tag = "Err" => invoked' = invoked]_vars

(* C8: a code longer than 10 characters decodes to an error value, never to
   a panic and never to a Seat. *)
C8_LongCodeFails ==
  (DecodedOne /\ Len(Code) > 10) => (outcome.tag # "Panic" /\ acc.tag = "Err")

(* C9: every index id - lowest the gap search evaluates on the sorted seats
   is below their number. *)
C9_IndexInBounds ==
  (pc = "find" /\ id <= RangeEnd(lowest, highest)) => id - lowest < Len(seats)

C9_Witness ==
  /\ pc = "find"
  /\ lowest < id
  /\ id = highest
  /\ id - lowest = Len(seats) - 1

(* C10: a code of length n < 10 over {F,B,L,R} decodes to the Seat whose id
   has bits 9..(10-n) set by the characters and the lower bits 0, the empty
   code to id 0; no code of at most 10 characters is reported too high. *)
C10_LengthNotEnforced ==
  DecodedOne =>
     /\ (Len(Code) < 10 /\ AllLegal(Code)) =>
           /\ outcome.tag # "Panic"
           /\ acc = Ok(<<[id |-> WeightSum(Code), code |-> Code]>>)
           /\ acc.val[1].id % Pow2(10 - Len(Code)) = 0
     /\ (Code = <<>>) => (acc.tag = "Ok" /\ acc.val[1].id = 0)
     /\ (Len(Code) <= 10 /\ acc.tag = "Err") => acc.val \in IllegalMessages

C10_Witness ==
  /\ DecodedOne
  /\ Code = <<"B", "R">>
  /\ acc = Ok(<<[id |-> 768, code |-> Code]>>)

====
